---- MODULE Spec2Model ----
(***************************************************************************)
(* pa-notify-alert: the poll loop of pa_notify_alert.py (main), its        *)
(* polling / notification criteria, the retry-wrapped notification sends   *)
(* and the cooldown timestamp files.                                       *)
(*                                                                         *)
(* Time is the UTC instant in milliseconds since a Monday 00:00:00 UTC.    *)
(* Timestamps in memory keep their sub-second part (datetime); timestamps  *)
(* in the cooldown files are what strftime('%Y-%m-%d %H:%M:%S%z') keeps:   *)
(* whole seconds.                                                          *)
(***************************************************************************)
EXTENDS Integers, Sequences, FiniteSets, TLC

VARIABLES
    now,                    \* the clock (UTC instant, ms)
    dst,                    \* daylight saving is in effect in the reference zone
    cfg,                    \* config.ini / constants: recipient lists, daily flags
    env,                    \* what the sensor, the transports and the host can do
    ticks,                  \* loop iterations observed so far
    restarts,               \* how often the process was started again
    pc,                     \* position of the process in main()
    exit_cause,             \* why the process ended ("" while it runs)
    kind,                   \* com_mode of the notification being sent
    attempts,               \* retry wrapper: attempts
    failures,               \* transport: how many attempts of this firing raise
    utc_now,                \* text_notify / email_notify: utc_now
    status,                 \* text_notify: the fetched delivery status
    local_pm25_aqi,         \* main: local_pm25_aqi
    confidence,             \* main: confidence
    regional_aqi_mean,      \* main: regional_aqi_mean (tenths of an index point)
    local_pm25_aqi_list,    \* main: local_pm25_aqi_list
    local_pm25_aqi_avg,     \* main: local_pm25_aqi_avg (sixths of an index point)
    local_pm25_aqi_avg_duration, \* main: local_pm25_aqi_avg_duration (seconds)
    pm_aqi_roc,             \* main: pm_aqi_roc (tenths of an index point per hour)
    polling_start,          \* main: polling_start
    status_start,           \* main: status_start
    text_notification_et,   \* main: text_notification_et (ms)
    email_notification_et,  \* main: email_notification_et (ms)
    last,                   \* main: last_<com_mode>_notification
    file,                   \* the four cooldown files
    fetched,                \* history: this iteration fetched the sensor
    criteria,               \* history: what notification_criteria_met returned
    list_window,            \* history: the UTC day each buffered reading was read
    arrivals,               \* history: readings appended since the last reset
    last_fetch,             \* history: instant of this process's latest sensor fetch
    fetch_gap,              \* history: time from the fetch before it to that fetch
    adhoc_last,             \* history: instant of the last confirmed ad-hoc send
    adhoc_gap,              \* history: gap between the last two confirmed sends
    copies,                 \* history: messages each recipient got in this firing
    reached,                \* history: recipients messaged by each attempt of it
    due,                    \* history: ad-hoc notifications the latest cycle owes
    call,                   \* the conversion being applied ("none" in main())
    args,                   \* its arguments
    result                  \* what it returned (<<>> until it has returned)

vars == <<now, dst, cfg, env, ticks, restarts, pc, exit_cause, kind, attempts,
          failures, utc_now, status, local_pm25_aqi, confidence,
          regional_aqi_mean, local_pm25_aqi_list, local_pm25_aqi_avg,
          local_pm25_aqi_avg_duration, pm_aqi_roc, polling_start, status_start,
          text_notification_et, email_notification_et, last, file, fetched,
          criteria, list_window, arrivals, last_fetch, fetch_gap, adhoc_last,
          adhoc_gap, copies, reached, due, call, args, result>>

(***************************************************************************)
(* Units                                                                   *)
(***************************************************************************)
Second == 1000
Minute == 60 * Second
Hour == 60 * Minute
Day == 24 * Hour

(***************************************************************************)
(* Bounds of the model                                                     *)
(***************************************************************************)
\* The loop is observed once per Tick milliseconds.
Tick == 7200000
\* Loop iterations of one behaviour.
MaxTicks == 15
\* Restarts of the process in one behaviour.
MaxRestarts == 1

(***************************************************************************)
(* Literals of pa_notify_alert.py                                          *)
(***************************************************************************)
max_attempts == 6
delay == 90
escalation == 90
TEXT_STATUS_SLEEP == 5
DAILY_ELAPSED_HOURS == 14
DAILY_LEAD_SECONDS == 30
DAILY_MIN_DATA_POINTS == 16
MISSING_FILE_HOURS == 24
PST_ADJUST_HOURS == 1
PDT_UTC_OFFSET_HOURS == -7
INITIAL_AVG_DURATION == 2

(***************************************************************************)
(* constants.py as pa_notify_alert.py reads it (times of day in seconds)   *)
(***************************************************************************)
POLLING_INTERVAL == 7200
NOTIFICATION_INTERVAL == 28800
STATUS_INTERVAL == 1
READINGS_STORAGE_DURATION == 150
MAX_DAY_OF_WEEK == 5
POLLING_START_TIME == 0
POLLING_END_TIME == 50400
PRE_OPEN_ALERT_START_TIME == 14400
PRE_OPEN_ALERT_END_TIME == 28799
OPEN_ALERT_START_TIME == 28800
OPEN_ALERT_END_TIME == 50400
OPEN_AQI_ALERT_THRESHOLD == 100
PRE_OPEN_AQI_ALERT_THRESHOLD == 150

(***************************************************************************)
(* Values that are not numbers                                             *)
(***************************************************************************)
\* get_local_pa_data: local_aqi = 'ERROR'
ERROR == -1
\* AQI.calculate: no breakpoint row matched, the function returns None
NONE == -2
\* get_regional_pa_data: the empty DataFrame returned on RequestException
DATAFRAME == -3
\* session.get raised RequestException
EXC == -4
\* response.ok is False
NOTOK == -5
\* clean_data left no row
EMPTY_DF == -6
\* a cooldown file that does not exist
FILE_MISSING == -1
\* a cooldown file opened with 'w' and not yet written
FILE_EMPTY == -2
\* no confirmed send yet
NEVER == -1

IsNum(x) == x >= 0

ComModes == {"text", "email", "daily_text", "daily_email"}
AdhocModes == {"text", "email"}
TextModes == {"text", "daily_text"}

(***************************************************************************)
(* Inputs                                                                  *)
(***************************************************************************)
LocalAQIs == {99, 100}
RegionalMeans == {1000, 1500}
LocalOutcomes == env.locals \cup {ERROR, NONE, EXC}
RegionalOutcomes == env.regionals \cup {NOTOK, EMPTY_DF}
InitialLocal == {100, ERROR}
Statuses == {"delivered", "failed"}
SuccessStatuses == {"delivered"}
Latencies == {0, 500}
FailurePlans == {0, 1, max_attempts}
\* Saturday 00:00:00 UTC and Sunday 04:00:00 UTC
StartTimes == {5 * Day, 6 * Day + 4 * Hour}
\* config.ini with every list filled, and with no text recipient.
AllLists ==
    [text_list |-> 1, email_list |-> 1, admin_text_list |-> 1,
     admin_email_list |-> 1, DAILY_TEXT_NOTIFICATION |-> TRUE,
     DAILY_EMAIL_NOTIFICATION |-> TRUE]
EmailOnly == [AllLists EXCEPT !.text_list = 0]
\* Two recipients in each list but admin_email_list, which is empty.
TwoEachNoAdminEmail ==
    [AllLists EXCEPT !.text_list = 2, !.email_list = 2, !.admin_text_list = 2,
                     !.admin_email_list = 0]
\* A behaviour either varies the readings under a prompt, reliable transport
\* and an uninterrupted process, or varies the transport and the process's
\* lifetime under one reading.
Readings ==
    [locals |-> LocalAQIs, regionals |-> RegionalMeans \cup {DATAFRAME},
     latencies |-> {0}, plans |-> {0}, late_raise |-> FALSE, restarts |-> 0]
Transport ==
    [locals |-> {100}, regionals |-> {1500}, latencies |-> Latencies,
     plans |-> FailurePlans, late_raise |-> FALSE, restarts |-> MaxRestarts]
\* One reading and no restart under a transport that fails on a recipient
\* or after the last one (late_raise).
Failing ==
    [locals |-> {100}, regionals |-> {1500}, latencies |-> {0},
     plans |-> FailurePlans, late_raise |-> TRUE, restarts |-> 0]
Scenarios ==
    { [cfg |-> AllLists, env |-> Readings],
      [cfg |-> AllLists, env |-> Transport],
      [cfg |-> EmailOnly, env |-> Transport],
      [cfg |-> TwoEachNoAdminEmail, env |-> Failing] }

(***************************************************************************)
(* Clock, calendar and timestamp text                                      *)
(***************************************************************************)
SecondsPerHour == Hour \div Second
SecondsPerDay == Day \div Second

\* strftime('%Y-%m-%d %H:%M:%S%z') of a naive datetime: the whole seconds.
FormatTs(t) == t \div Second

\* datetime.fromisoformat(datetime_str).replace(tzinfo=utc)
ParseTs(s) == s * Second

\* datetime.datetime.utcnow().strftime('%H:%M:%S'), as seconds of the day
TimeOfDay == (now % Day) \div Second

\* The host's wall clock runs in the Pacific reference zone.
LocalOffset == IF dst THEN PDT_UTC_OFFSET_HOURS * Hour
                      ELSE (PDT_UTC_OFFSET_HOURS - 1) * Hour

\* datetime.datetime.today().weekday(), 0 = Monday
weekday == ((now + LocalOffset) \div Day) % 7

\* datetime.timezone(timedelta(hours=-7)) is a fixed-offset zone: its dst()
\* is None at every instant.
FixedOffsetDst == NONE

\* is_pdt(): dst() != timedelta(0)
is_pdt == FixedOffsetDst # 0

\* strptime(t, '%H:%M:%S') - timedelta(hours=1), formatted '%H:%M:%S' again
ShiftEarlier(tod) == (tod - PST_ADJUST_HOURS * SecondsPerHour) % SecondsPerDay

\* The boundaries as the criteria functions compare them.
polling_start_time ==
    IF ~is_pdt THEN ShiftEarlier(POLLING_START_TIME) ELSE POLLING_START_TIME
polling_end_time ==
    IF ~is_pdt THEN ShiftEarlier(POLLING_END_TIME) ELSE POLLING_END_TIME
pre_open_alert_start_time ==
    IF ~is_pdt THEN ShiftEarlier(PRE_OPEN_ALERT_START_TIME)
               ELSE PRE_OPEN_ALERT_START_TIME
pre_open_alert_end_time ==
    IF ~is_pdt THEN ShiftEarlier(PRE_OPEN_ALERT_END_TIME)
               ELSE PRE_OPEN_ALERT_END_TIME
open_alert_start_time ==
    IF ~is_pdt THEN ShiftEarlier(OPEN_ALERT_START_TIME)
               ELSE OPEN_ALERT_START_TIME
open_alert_end_time ==
    IF ~is_pdt THEN ShiftEarlier(OPEN_ALERT_END_TIME) ELSE OPEN_ALERT_END_TIME
\* strptime(PRE_OPEN_ALERT_START_TIME) - timedelta(seconds=30), never adjusted
daily_floor_time ==
    (PRE_OPEN_ALERT_START_TIME - DAILY_LEAD_SECONDS) % SecondsPerDay

(***************************************************************************)
(* The criteria functions                                                  *)
(***************************************************************************)
\* A polling_criteria_met that tests the polling window only.
polling_criteria_met_any_elapsed(polling_et) ==
    IF weekday > MAX_DAY_OF_WEEK
    THEN <<FALSE>>
    ELSE << TRUE,
            TimeOfDay >= polling_start_time /\ TimeOfDay <= polling_end_time >>

\* A bare False on a closed weekday, else the pair (interval elapsed, inside
\* the polling window).
polling_criteria_met(polling_et) ==
    IF weekday > MAX_DAY_OF_WEEK
    THEN <<FALSE>>
    ELSE << polling_et >= POLLING_INTERVAL * Second,
            TimeOfDay >= polling_start_time /\ TimeOfDay <= polling_end_time >>

\* (local >= OPEN threshold or regional >= threshold): "T", "F", "DF" (the
\* DataFrame a comparison with the empty DataFrame yields) or "raise"
\* (TypeError: a str or None compared with an int).
ThresholdTest(local, regional, threshold) ==
    IF ~IsNum(local) THEN "raise"
    ELSE IF local >= OPEN_AQI_ALERT_THRESHOLD THEN "T"
    ELSE IF regional = DATAFRAME THEN "DF"
    ELSE IF regional >= threshold * 10 THEN "T" ELSE "F"

\* notification_criteria_met without the test num_data_points >=
\* max_data_points.
notification_criteria_met_any_count(local, regional, num_data_points, max_points) ==
    IF weekday > MAX_DAY_OF_WEEK THEN "F"
    ELSE
    LET pre == IF TimeOfDay >= pre_open_alert_start_time
                  /\ TimeOfDay <= pre_open_alert_end_time
               THEN ThresholdTest(local, regional, PRE_OPEN_AQI_ALERT_THRESHOLD)
               ELSE "F"
        open == IF TimeOfDay >= open_alert_start_time
                   /\ TimeOfDay <= open_alert_end_time
                THEN ThresholdTest(local, regional, OPEN_AQI_ALERT_THRESHOLD)
                ELSE "F"
        either == IF pre = "T" THEN "T" ELSE open
    IN  IF pre = "raise" \/ open = "raise" THEN "raise"
        ELSE IF pre = "DF" \/ either = "DF" THEN "raise"
        ELSE either

\* "T", "F" or "raise"
notification_criteria_met(local, regional, num_data_points, max_points) ==
    IF weekday > MAX_DAY_OF_WEEK THEN "F"
    ELSE
    LET pre == IF TimeOfDay >= pre_open_alert_start_time
                  /\ TimeOfDay <= pre_open_alert_end_time
               THEN ThresholdTest(local, regional, PRE_OPEN_AQI_ALERT_THRESHOLD)
               ELSE "F"
        open == IF TimeOfDay >= open_alert_start_time
                   /\ TimeOfDay <= open_alert_end_time
                THEN ThresholdTest(local, regional, OPEN_AQI_ALERT_THRESHOLD)
                ELSE "F"
        either == IF pre = "T" THEN "T" ELSE open
    IN  IF pre = "raise" \/ open = "raise" THEN "raise"
        \* bool() of a DataFrame raises ValueError
        ELSE IF pre = "DF" \/ either = "DF" THEN "raise"
        ELSE IF either = "T" /\ num_data_points >= max_points THEN "T"
        ELSE "F"

DailyCriteria(flag, daily_notification, num_data_points) ==
    IF flag
    THEN LET adjusted == IF ~is_pdt
                         THEN daily_notification + PST_ADJUST_HOURS * Hour
                         ELSE daily_notification
             timed == /\ now - adjusted >= DAILY_ELAPSED_HOURS * Hour
                      /\ TimeOfDay >= daily_floor_time
         IN  IF weekday <= MAX_DAY_OF_WEEK
             THEN timed /\ num_data_points >= DAILY_MIN_DATA_POINTS
             ELSE timed
    ELSE FALSE

daily_text_notification_criteria_met(daily_text_notification, num_data_points) ==
    DailyCriteria(cfg.DAILY_TEXT_NOTIFICATION, daily_text_notification,
                  num_data_points)

daily_email_notification_criteria_met(daily_email_notification, num_data_points) ==
    DailyCriteria(cfg.DAILY_EMAIL_NOTIFICATION, daily_email_notification,
                  num_data_points)

(***************************************************************************)
(* The window buffer                                                       *)
(***************************************************************************)
\* ceil(READINGS_STORAGE_DURATION / (POLLING_INTERVAL / 60)) + 1
max_data_points ==
    ((READINGS_STORAGE_DURATION * 60 + POLLING_INTERVAL - 1)
        \div POLLING_INTERVAL) + 1

\* s[-n:]
LastN(s, n) == IF Len(s) <= n THEN s ELSE SubSeq(s, Len(s) - n + 1, Len(s))

\* A buffer that drops the new reading once it is full.
AppendReading_keep_oldest(list, v) ==
    IF Len(list) < max_data_points THEN Append(list, v) ELSE list

\* list.append(v); list = list[-max_data_points:]
AppendReading(list, v) == LastN(Append(list, v), max_data_points)

(***************************************************************************)
(* The conversions: sensor confidence (get_local_pa_data) and              *)
(* AQI.calculate                                                           *)
(***************************************************************************)
\* The channel values pm2.5_cf_1_a / _b are counted in 1/PairUnit ug/m3, the
\* concentration handed on in 1/(2 * PairUnit) ug/m3. A multiple of 1/8 is a
\* double, and sums, differences and halves of such values are computed
\* without rounding.
PairUnit == 40
\* The 1e-6 of pm_dif_pct is 1/EpsScale of a pair unit.
EpsScale == 25000
\* Channel values up to MaxEighths / 8 ug/m3 ...
MaxEighths == 160
\* ... and 10.1 ug/m3.
PairValues == {(PairUnit \div 8) * k : k \in 0..MaxEighths} \cup {404}

\* pm_dif_abs
pm_dif_abs(a, b) == IF a >= b THEN a - b ELSE b - a

\* A scorer whose absolute test is pm_dif_abs > 5.
LowConfidence_strict(a, b) ==
    \/ (20 * EpsScale) * pm_dif_abs(a, b) >= (7 * EpsScale) * (a + b) + 7
    \/ pm_dif_abs(a, b) > 5 * PairUnit

\* pm_dif_pct >= 0.7 or pm_dif_abs >= 5, where
\* pm_dif_pct = abs(a - b) / ((a + b + 1e-6) / 2)
LowConfidence(a, b) ==
    \/ (20 * EpsScale) * pm_dif_abs(a, b) >= (7 * EpsScale) * (a + b) + 7
    \/ pm_dif_abs(a, b) >= 5 * PairUnit

\* (confidence, pm_cf1): max(a, b) when LOW, (a + b) / 2 when GOOD
SensorConfidence(a, b) ==
    IF LowConfidence(a, b)
    THEN << "LOW", 2 * (IF a >= b THEN a ELSE b) >>
    ELSE << "GOOD", a + b >>

\* Concentrations are counted in hundredths of a ug/m3, breakpoints in tenths.
MaxNegative == 30
MaxConcentration == 50100
Concentrations == (-MaxNegative)..MaxConcentration

\* pm25_aqi: (Ilow, Ihigh, Clow, Chigh)
pm25_aqi ==
    << <<0, 50, 0, 120>>,
       <<51, 100, 121, 354>>,
       <<101, 150, 355, 554>>,
       <<151, 200, 555, 1504>>,
       <<201, 300, 1505, 2504>>,
       <<301, 500, 2505, 5004>>,
       <<301, 500, 2505, 5004>> >>

\* max(int(PM2_5 * 10) / 10.0, 0): int() truncates towards zero
Truncated(PM2_5) ==
    LET t == IF PM2_5 >= 0 THEN PM2_5 \div 10 ELSE -((-PM2_5) \div 10)
    IN  IF t >= 0 THEN t ELSE 0

\* The first row with Clow <= PM2_5 <= Chigh, 0 if there is none.
FirstRow(t) ==
    LET rows == {i \in 1..Len(pm25_aqi) :
                    pm25_aqi[i][3] <= t /\ t <= pm25_aqi[i][4]}
    IN  IF rows = {} THEN 0
        ELSE CHOOSE i \in rows : \A j \in rows : i <= j

\* The tenths at which the double (Ihigh - Ilow) / (Chigh - Clow) *
\* (PM2_5 - Clow) + Ilow lies above a value that is half-way between two
\* integers in exact arithmetic: 50 / 12 * 5.4 is 22.500000000000004.
ProductAboveHalf == {54}

\* round() of the double num / den, counted from Ilow: the nearest integer,
\* and the even one when the double is half-way.
RoundDouble(num, den, t) ==
    LET q == num \div den
        r == num % den
    IN  IF 2 * r < den THEN q
        ELSE IF 2 * r > den THEN q + 1
        ELSE IF t \in ProductAboveHalf THEN q + 1
        ELSE IF q % 2 = 0 THEN q ELSE q + 1

\* An AQI.calculate without round(): int() alone.
AQI_calculate_truncating(PM2_5) ==
    LET t == Truncated(PM2_5)
        i == FirstRow(t)
    IN  IF i = 0 THEN NONE
        ELSE LET Ilow == pm25_aqi[i][1]
                 Ihigh == pm25_aqi[i][2]
                 Clow == pm25_aqi[i][3]
                 Chigh == pm25_aqi[i][4]
             IN  Ilow + ((Ihigh - Ilow) * (t - Clow)) \div (Chigh - Clow)

\* AQI.calculate(PM): int(round((Ihigh - Ilow) / (Chigh - Clow) *
\* (PM2_5 - Clow) + Ilow)) for the first matching row, None without one.
AQI_calculate(PM2_5) ==
    LET t == Truncated(PM2_5)
        i == FirstRow(t)
    IN  IF i = 0 THEN NONE
        ELSE LET Ilow == pm25_aqi[i][1]
                 Ihigh == pm25_aqi[i][2]
                 Clow == pm25_aqi[i][3]
                 Chigh == pm25_aqi[i][4]
             IN  Ilow + RoundDouble((Ihigh - Ilow) * (t - Clow),
                                    Chigh - Clow, t)

(***************************************************************************)
(* EPA.calculate(RH, PM, *args), with at most one further reading          *)
(***************************************************************************)
\* An argument that is a str, and the further reading that was not passed.
STR == -999999
ABSENT == -999998
\* Humidity in percent, concentrations in ug/m3, the result in thousandths.
Humidities == {STR, -10, 0, 50}
Readings_PM == {STR, -5, 0, 100, 343, 344, 400}
FurtherReadings == {ABSENT, STR, -5, 0, 100, 343, 400}

\* round(x, 3) of x = num / den thousandths (no input of Readings_PM is
\* half-way between two thousandths)
RoundThousandths(num, den) == (2 * num + den) \div (2 * den)

\* ("ok", PM2_5_epa) or ("TypeError", 0): `arg < 0` on a str raises before
\* the try block.
EPA_calculate(RH, PM, arg) ==
    LET str == RH = STR \/ PM = STR
        PM0 == IF str THEN 0 ELSE PM
        RH0 == IF str THEN 0 ELSE RH
        PM1 == IF PM0 < 0 THEN 0 ELSE PM0
        RH1 == IF RH0 < 0 THEN 0 ELSE RH0
        \* a negative further reading is set to 0 and neither added nor
        \* counted
        counted == arg # ABSENT /\ arg >= 0
        total == IF counted THEN PM1 + arg ELSE PM1
        count == IF counted THEN 2 ELSE 1
    IN  IF arg = STR THEN << "TypeError", 0 >>
        ELSE IF total <= 343 * count
        THEN << "ok", RoundThousandths(
                          520 * total - 86 * RH1 * count + 5750 * count,
                          count) >>
        ELSE << "ok", RoundThousandths(
                          460000 * total * count + 393 * total * total
                              + 2970000 * count * count,
                          1000 * count * count) >>

(***************************************************************************)
(* aqi_rate_of_change(data_points), with constants.POLLING_INTERVAL given  *)
(***************************************************************************)
\* Values of a buffer and its greatest length.
MaxPoints == 3
PointValues == {10, 11, 12, 14}
Buffers == UNION {[1..n -> PointValues] : n \in 0..MaxPoints}
\* constants.POLLING_INTERVAL in seconds: whole minutes, and one that is not.
PollingIntervals == {60, 90, 120, POLLING_INTERVAL}

RECURSIVE SumOver(_, _, _)
\* Over the points from the i-th on: the sum of y (p = 0), of x * y (p = 1)
\* and of x * x (p = 2), where x = index = position - 1.
SumOver(y, p, i) ==
    IF i > Len(y) THEN 0
    ELSE (IF p = 0 THEN y[i]
          ELSE IF p = 1 THEN (i - 1) * y[i]
          ELSE (i - 1) * (i - 1))
         + SumOver(y, p, i + 1)

\* The integers nearest to num / den (den > 0). A quotient half-way between
\* two of them comes out of the floating-point fit just below or just above
\* the half, and round() then gives either neighbour.
RoundOutcomes(num, den) ==
    LET q == num \div den
        r == num - q * den
    IN  IF 2 * r < den THEN {q}
        ELSE IF 2 * r > den THEN {q + 1}
        ELSE {q, q + 1}

\* What aqi_rate_of_change can return, in tenths of an index point per hour:
\* the least-squares slope over x = index * int(polling_interval / 60).
aqi_rate_of_change(data_points, polling_interval) ==
    LET n == Len(data_points)
        step == polling_interval \div 60
        Si == (n * (n - 1)) \div 2
        Sy == SumOver(data_points, 0, 1)
        Siy == SumOver(data_points, 1, 1)
        Sii == SumOver(data_points, 2, 1)
    IN  IF n < 2 THEN {0}
        ELSE RoundOutcomes(600 * (n * Siy - Si * Sy),
                           step * (n * Sii - Si * Si))

(***************************************************************************)
(* get_regional_pa_data(bbox, local_aqi) and clean_data(df)                *)
(***************************************************************************)
\* Sensors in one response.
MaxSensors == 3
Sensor(h, a, b) == [humidity |-> h, pm2_5_cf_1_a |-> a, pm2_5_cf_1_b |-> b]
\* Rows that pass the cleaning, and one row failing each of its tests.
SensorRows ==
    {Sensor(50, 10, 12), Sensor(50, 100, 102), Sensor(20, 40, 41),
     Sensor(50, 10, 16), Sensor(50, 1, 3), Sensor(50, 2001, 2001)}
Responses == UNION {[1..n -> SensorRows] : n \in 0..MaxSensors}
\* session.get: a response that is ok, one that is not, RequestException
ResponseKinds == {"ok", "not ok", "raise"}

\* clean_data keeps a row when neither channel is above 2000, the channels
\* differ by less than 5 and by less than 0.7 of (a + b + 1e-6) / 2. For
\* whole a and b, 20 * |a - b| >= 7 * (a + b) + 7e-6 is 20 * |a - b| >
\* 7 * (a + b).
Kept(row) ==
    LET a == row.pm2_5_cf_1_a
        b == row.pm2_5_cf_1_b
        dif == IF a > b THEN a - b ELSE b - a
    IN  /\ ~(a > 2000)
        /\ ~(b > 2000)
        /\ ~(dif >= 5)
        /\ ~(20 * dif > 7 * (a + b))

clean_data(df) == SelectSeq(df, Kept)

\* AQI.calculate(EPA.calculate(humidity, a, b)) of a row
Ipm25(row) ==
    LET pm25_epa == EPA_calculate(row.humidity, row.pm2_5_cf_1_a,
                                  row.pm2_5_cf_1_b)[2]
    IN  AQI_calculate(IF pm25_epa >= 0 THEN pm25_epa \div 10
                      ELSE -((-pm25_epa) \div 10))

RECURSIVE SumIpm25(_)
SumIpm25(df) == IF df = <<>> THEN 0 ELSE Ipm25(Head(df)) + SumIpm25(Tail(df))

\* round(x, 1) of a mean num / den in tenths: a mean half-way between two
\* tenths is a double and rounds to the even one.
RoundMean(num, den) ==
    LET to == RoundOutcomes(num, den)
    IN  CHOOSE q \in to : Cardinality(to) = 1 \/ q % 2 = 0

\* (outcome, mean in tenths)
get_regional_pa_data(kind_of_response, data, local_aqi) ==
    LET df == clean_data(data)
    IN  IF kind_of_response = "raise" THEN << "DataFrame", 0 >>
        ELSE IF kind_of_response = "not ok" THEN << "UnboundLocalError", 0 >>
        ELSE IF df # <<>>
        THEN << "ok", RoundMean(10 * SumIpm25(df), Len(df)) >>
        ELSE IF local_aqi = ERROR THEN << "TypeError", 0 >>
        ELSE << "ok", 10 * local_aqi >>

\* sum(data_points) / len(data_points) in sixths of an index point: exact
\* for the 1, 2 or 3 values a buffer of max_data_points holds.
AvgUnit == 6
\* An average that divides by the buffer's capacity.
Average_over_capacity(data_points) ==
    (AvgUnit * SumOver(data_points, 0, 1)) \div max_data_points

Average(data_points) ==
    (AvgUnit * SumOver(data_points, 0, 1)) \div Len(data_points)

(***************************************************************************)
(* State                                                                   *)
(***************************************************************************)
envv == <<dst, cfg, env, call, args, result>>
sendv == <<kind, attempts, failures, utc_now, status>>
readv == <<local_pm25_aqi, confidence, regional_aqi_mean, local_pm25_aqi_list,
           local_pm25_aqi_avg, local_pm25_aqi_avg_duration, pm_aqi_roc,
           polling_start>>
etv == <<text_notification_et, email_notification_et>>
histv == <<fetched, criteria, list_window, arrivals, last_fetch, fetch_gap>>
adhocv == <<adhoc_last, adhoc_gap>>
sentv == <<adhoc_last, adhoc_gap, copies, reached>>
\* No ad-hoc notification is owed.
NoneDue == [k \in AdhocModes |-> "no"]

RunningPcs == {"top", "adhoc_text", "adhoc_email", "daily_text", "daily_email",
               "notify", "write_open", "write_data", "sleep"}

\* The next instant at which the loop is observed.
NextGrid == ((now \div Tick) + 1) * Tick

\* read_timestamp on a missing file: (datetime.now() - 24 h), the host's wall
\* clock, written without offset and read back as UTC.
MissingFileText == FormatTs(now + LocalOffset - MISSING_FILE_HOURS * Hour)

\* The recipient list a notification of this com_mode is called with.
Recipients(k) ==
    CASE k = "text" -> cfg.text_list
      [] k = "email" -> cfg.email_list
      [] k = "daily_text" -> cfg.admin_text_list
      [] k = "daily_email" -> cfg.admin_email_list

\* Where main() goes on after the notification of this com_mode.
NextStage(k) ==
    CASE k = "text" -> "adhoc_email"
      [] k = "email" -> "daily_text"
      [] k = "daily_text" -> "daily_email"
      [] k = "daily_email" -> "sleep"

\* The process ends (an uncaught exception, sys.exit(1) in retry, sys.exit(0)
\* on KeyboardInterrupt): what it held in memory is gone, the files stay.
Halted(cause) ==
    /\ pc' = "dead"
    /\ exit_cause' = cause
    /\ kind' = "none"
    /\ attempts' = 0
    /\ failures' = 0
    /\ utc_now' = 0
    /\ status' = "none"
    /\ local_pm25_aqi' = 0
    /\ confidence' = "none"
    /\ regional_aqi_mean' = 0
    /\ local_pm25_aqi_list' = <<>>
    /\ local_pm25_aqi_avg' = 0
    /\ local_pm25_aqi_avg_duration' = 0
    /\ pm_aqi_roc' = 0
    /\ polling_start' = 0
    /\ status_start' = 0
    /\ text_notification_et' = 0
    /\ email_notification_et' = 0
    /\ last' = [k \in ComModes |-> 0]
    /\ fetched' = FALSE
    /\ criteria' = "none"
    /\ list_window' = <<>>
    /\ arrivals' = <<>>
    /\ last_fetch' = NEVER
    /\ fetch_gap' = NEVER
    /\ copies' = <<>>
    /\ reached' = <<>>
    /\ UNCHANGED <<now, envv, ticks, restarts, file, adhocv>>

initialize ==
    /\ now \in StartTimes
    /\ dst \in BOOLEAN
    /\ \E sc \in Scenarios : cfg = sc.cfg /\ env = sc.env
    /\ ticks = 0
    /\ restarts = 0
    /\ pc = "top"
    /\ exit_cause = ""
    /\ kind = "none"
    /\ attempts = 0
    /\ failures = 0
    /\ utc_now = 0
    /\ status = "none"
    /\ local_pm25_aqi \in InitialLocal
    /\ confidence = (IF local_pm25_aqi = ERROR THEN "ERROR" ELSE "GOOD")
    /\ regional_aqi_mean = 0
    /\ local_pm25_aqi_list = <<>>
    /\ local_pm25_aqi_avg = 0
    /\ local_pm25_aqi_avg_duration = INITIAL_AVG_DURATION * 60
    /\ pm_aqi_roc = 0
    /\ polling_start = now
    /\ status_start = now
    /\ text_notification_et = 0
    /\ email_notification_et = 0
    /\ file = [k \in ComModes |-> MissingFileText]
    /\ last = [k \in ComModes |-> ParseTs(MissingFileText)]
    /\ fetched = FALSE
    /\ criteria = "none"
    /\ list_window = <<>>
    /\ arrivals = <<>>
    /\ last_fetch = now
    /\ fetch_gap = NEVER
    /\ adhoc_last = [k \in AdhocModes |-> NEVER]
    /\ adhoc_gap = [k \in AdhocModes |-> NEVER]
    /\ copies = <<>>
    /\ reached = <<>>
    /\ due = NoneDue

\* main() applies the conversions inside its fetches; their results reach it
\* as the reading and the regional mean.
Init ==
    /\ initialize
    /\ call = "none"
    /\ args = <<>>
    /\ result = <<>>

(***************************************************************************)
(* main(): lines 848-868 of one loop iteration                             *)
(***************************************************************************)
\* A polling branch without the test `local_pm25_aqi != 'ERROR'`: every
\* reading is appended.
PollResult_appending_error(lo, ro) ==
    LET list == AppendReading(local_pm25_aqi_list, lo)
        regional == IF ro = EMPTY_DF THEN lo * 10 ELSE ro
        crit == notification_criteria_met(lo, regional, Len(list),
                                          max_data_points)
        cause ==
            CASE lo = EXC -> "get_local_pa_data returned 0: TypeError on unpacking"
              [] lo = NONE -> "None in local_pm25_aqi_list: TypeError"
              [] lo # EXC /\ lo # NONE /\ ro = NOTOK ->
                    "get_regional_pa_data: UnboundLocalError mean_ipm25"
              [] lo = ERROR /\ ro = EMPTY_DF ->
                    "get_regional_pa_data: round('ERROR', 1) TypeError"
              [] OTHER -> IF crit = "raise"
                          THEN "notification_criteria_met: TypeError/ValueError"
                          ELSE ""
    IN  [list |-> list, regional |-> regional, crit |-> crit, cause |-> cause]

\* What the polling branch computes from the two fetches: lo is what
\* get_local_pa_data yields, ro what get_regional_pa_data yields.
PollResult(lo, ro) ==
    LET list == IF lo # ERROR THEN AppendReading(local_pm25_aqi_list, lo)
                              ELSE local_pm25_aqi_list
        regional == IF ro = EMPTY_DF THEN lo * 10 ELSE ro
        crit == notification_criteria_met(lo, regional, Len(list),
                                          max_data_points)
        cause ==
            CASE lo = EXC -> "get_local_pa_data returned 0: TypeError on unpacking"
              [] lo = NONE -> "None in local_pm25_aqi_list: TypeError"
              [] lo # EXC /\ lo # NONE /\ ro = NOTOK ->
                    "get_regional_pa_data: UnboundLocalError mean_ipm25"
              [] lo = ERROR /\ ro = EMPTY_DF ->
                    "get_regional_pa_data: round('ERROR', 1) TypeError"
              [] OTHER -> IF crit = "raise"
                          THEN "notification_criteria_met: TypeError/ValueError"
                          ELSE ""
    IN  [list |-> list, regional |-> regional, crit |-> crit, cause |-> cause]

\* status_update formats local_pm25_aqi and regional_aqi_mean with ':.0f'.
StatusFormats == IsNum(local_pm25_aqi) /\ IsNum(regional_aqi_mean)

Cycle ==
    /\ pc = "top"
    /\ \E lo \in LocalOutcomes, ro \in RegionalOutcomes :
        LET polling_et == now - polling_start
            status_due == now - status_start >= STATUS_INTERVAL * Second
            status_raises == status_due /\ ~StatusFormats
            met == polling_criteria_met(polling_et)
            polled == ~status_raises /\ met = <<TRUE, TRUE>>
            cleared == ~status_raises /\ met = <<TRUE, FALSE>>
            r == PollResult(lo, ro)
        IN  due' = [k \in AdhocModes |->
                       IF /\ polled
                          /\ r.cause = ""
                          /\ r.crit = "T"
                          /\ Recipients(k) > 0
                          /\ now - last[k] >= NOTIFICATION_INTERVAL * Second
                       THEN "due" ELSE "no"]
            /\
            IF status_raises
            THEN Halted("status_update: ValueError/TypeError")
            ELSE IF polled /\ r.cause # ""
            THEN Halted(r.cause)
            ELSE
            /\ text_notification_et' = now - last["text"]
            /\ email_notification_et' = now - last["email"]
            /\ status_start' = IF status_due THEN now ELSE status_start
            /\ pc' = IF polled /\ r.crit = "T" THEN "adhoc_text"
                                               ELSE "daily_text"
            /\ local_pm25_aqi' = IF polled THEN lo ELSE local_pm25_aqi
            /\ confidence' =
                   IF polled THEN (IF lo = ERROR THEN "ERROR" ELSE "GOOD")
                             ELSE confidence
            /\ regional_aqi_mean' =
                   IF polled THEN r.regional ELSE regional_aqi_mean
            /\ local_pm25_aqi_list' =
                   IF polled THEN r.list
                   ELSE IF cleared THEN <<>> ELSE local_pm25_aqi_list
            /\ IF polled /\ lo # ERROR
               THEN /\ pm_aqi_roc' \in
                          aqi_rate_of_change(r.list, POLLING_INTERVAL)
                    /\ local_pm25_aqi_avg' = Average(r.list)
                    /\ local_pm25_aqi_avg_duration' =
                          (Len(r.list) - 1) * POLLING_INTERVAL
               ELSE UNCHANGED <<pm_aqi_roc, local_pm25_aqi_avg,
                                local_pm25_aqi_avg_duration>>
            /\ polling_start' = IF polled THEN now ELSE polling_start
            /\ fetched' = polled
            /\ criteria' = IF polled THEN r.crit ELSE "none"
            /\ list_window' =
                   IF polled /\ lo # ERROR
                   THEN LastN(Append(list_window, now \div Day),
                              max_data_points)
                   ELSE IF cleared THEN <<>> ELSE list_window
            /\ arrivals' =
                   IF polled /\ lo # ERROR THEN Append(arrivals, lo)
                   ELSE IF cleared THEN <<>> ELSE arrivals
            /\ last_fetch' = IF polled THEN now ELSE last_fetch
            /\ fetch_gap' = IF polled THEN now - last_fetch ELSE fetch_gap
            /\ UNCHANGED <<now, envv, ticks, restarts, exit_cause, sendv,
                           last, file, sentv>>

(***************************************************************************)
(* main(): lines 862-874, the four notification calls                      *)
(***************************************************************************)
\* The call of text_notify / email_notify begins: the retry wrapper's
\* attempts = 0.
BeginNotify(k) ==
    /\ pc' = "notify"
    /\ kind' = k
    /\ attempts' = 0
    /\ \E f \in env.plans : failures' = f
    /\ UNCHANGED <<utc_now, status>>

AdhocText ==
    /\ pc = "adhoc_text"
    /\ IF cfg.text_list > 0
          /\ text_notification_et >= NOTIFICATION_INTERVAL * Second
       THEN BeginNotify("text")
       ELSE pc' = "adhoc_email" /\ UNCHANGED sendv
    /\ UNCHANGED <<now, envv, ticks, restarts, exit_cause, readv, status_start,
                   etv, last, file, histv, sentv, due>>

AdhocEmail ==
    /\ pc = "adhoc_email"
    /\ IF cfg.email_list > 0
          /\ email_notification_et >= NOTIFICATION_INTERVAL * Second
       THEN BeginNotify("email")
       ELSE pc' = "daily_text" /\ UNCHANGED sendv
    /\ UNCHANGED <<now, envv, ticks, restarts, exit_cause, readv, status_start,
                   etv, last, file, histv, sentv, due>>

\* An evaluation whose `daily_text_notification += timedelta(hours=1)` acts on
\* the caller's timestamp.
DailyText_shifting ==
    /\ pc = "daily_text"
    /\ last' = [last EXCEPT !["daily_text"] = @ + PST_ADJUST_HOURS * Hour]
    /\ IF daily_text_notification_criteria_met(last'["daily_text"],
                                               Len(local_pm25_aqi_list))
          /\ cfg.admin_text_list > 0
       THEN BeginNotify("daily_text")
       ELSE pc' = "daily_email" /\ UNCHANGED sendv
    /\ UNCHANGED <<now, envv, ticks, restarts, exit_cause, readv, status_start,
                   etv, file, histv, sentv, due>>

DailyText ==
    /\ pc = "daily_text"
    /\ IF daily_text_notification_criteria_met(last["daily_text"],
                                               Len(local_pm25_aqi_list))
          /\ cfg.admin_text_list > 0
       THEN BeginNotify("daily_text")
       ELSE pc' = "daily_email" /\ UNCHANGED sendv
    /\ UNCHANGED <<now, envv, ticks, restarts, exit_cause, readv, status_start,
                   etv, last, file, histv, sentv, due>>

\* Line 873 tests email_list; the call is made with admin_email_list.
DailyEmail ==
    /\ pc = "daily_email"
    /\ IF daily_email_notification_criteria_met(last["daily_email"],
                                                Len(local_pm25_aqi_list))
          /\ cfg.email_list > 0
       THEN BeginNotify("daily_email")
       ELSE pc' = "sleep" /\ UNCHANGED sendv
    /\ UNCHANGED <<now, envv, ticks, restarts, exit_cause, readv, status_start,
                   etv, last, file, histv, sentv, due>>

(***************************************************************************)
(* retry(max_attempts=6, delay=90, escalation=90) around text_notify and   *)
(* email_notify                                                            *)
(***************************************************************************)
\* Building the message body formats regional_aqi_mean with ':.0f'.
BodyFormats == IsNum(regional_aqi_mean)

\* A firing that resumes after the recipients it has already messaged.
AttemptCopies_resuming(c, messaged) ==
    [i \in 1..(IF Len(c) > messaged THEN Len(c) ELSE messaged) |->
        IF i <= Len(c) THEN c[i] ELSE 1]

\* `for recipient in text_list` / `in email_list`: an attempt messages the
\* recipients from the first on; c counts the messages each has got.
AttemptCopies(c, messaged) ==
    [i \in 1..(IF Len(c) > messaged THEN Len(c) ELSE messaged) |->
        (IF i <= Len(c) THEN c[i] ELSE 0) + (IF i <= messaged THEN 1 ELSE 0)]

\* How many recipients an attempt that raises has messaged: the send raises
\* on any one recipient, or the status fetch (text) or the status log
\* (email) raises after the last one; the body is formatted before the
\* first.
MessagedBeforeRaise ==
    IF ~BodyFormats THEN {0}
    ELSE IF env.late_raise THEN 0..Recipients(kind)
    ELSE 0..(Recipients(kind) - 1)

\* This attempt raises an exception the wrapper catches: the transport fails
\* on a recipient, or (email_notify, wrapped with Exception) the body cannot
\* be formatted.
AttemptRaisesCaught ==
    \/ BodyFormats /\ Recipients(kind) > 0 /\ attempts < failures
    \/ ~BodyFormats /\ kind \notin TextModes

\* text_notify is wrapped with TwilioRestException only: a TypeError from
\* the body escapes the wrapper.
AttemptRaisesUncaught == ~BodyFormats /\ kind \in TextModes

\* A wrapper whose loop tests attempts <= max_attempts.
NotifyRaise_one_more ==
    /\ pc = "notify"
    /\ AttemptRaisesCaught
    /\ IF attempts < max_attempts
       THEN /\ attempts' = attempts + 1
            /\ now' = now + (delay + escalation * attempts) * Second
            /\ \E messaged \in MessagedBeforeRaise :
                /\ copies' = AttemptCopies(copies, messaged)
                /\ reached' = Append(reached, messaged)
            /\ UNCHANGED <<envv, ticks, restarts, pc, exit_cause, kind,
                           failures, utc_now, status, readv, status_start, etv,
                           last, file, histv, adhocv, due>>
       ELSE /\ Halted("retry: max attempts reached, sys.exit(1)")
            /\ due' = [k \in AdhocModes |->
                          IF k = kind /\ BodyFormats THEN "failed" ELSE due[k]]

\* A wrapper that computes adjusted_delay after attempts += 1.
NotifyRaise_late_delay ==
    /\ pc = "notify"
    /\ AttemptRaisesCaught
    /\ IF attempts + 1 < max_attempts
       THEN /\ attempts' = attempts + 1
            /\ now' = now + (delay + escalation * (attempts + 1)) * Second
            /\ \E messaged \in MessagedBeforeRaise :
                /\ copies' = AttemptCopies(copies, messaged)
                /\ reached' = Append(reached, messaged)
            /\ UNCHANGED <<envv, ticks, restarts, pc, exit_cause, kind,
                           failures, utc_now, status, readv, status_start, etv,
                           last, file, histv, adhocv, due>>
       ELSE /\ Halted("retry: max attempts reached, sys.exit(1)")
            /\ due' = [k \in AdhocModes |->
                          IF k = kind /\ BodyFormats THEN "failed" ELSE due[k]]

\* except exception: adjusted_delay, attempts += 1, sleep unless it was the
\* last attempt; after the loop sys.exit(1).
NotifyRaise ==
    /\ pc = "notify"
    /\ AttemptRaisesCaught
    /\ IF attempts + 1 < max_attempts
       THEN /\ attempts' = attempts + 1
            /\ now' = now + (delay + escalation * attempts) * Second
            /\ \E messaged \in MessagedBeforeRaise :
                /\ copies' = AttemptCopies(copies, messaged)
                /\ reached' = Append(reached, messaged)
            /\ UNCHANGED <<envv, ticks, restarts, pc, exit_cause, kind,
                           failures, utc_now, status, readv, status_start, etv,
                           last, file, histv, adhocv, due>>
       ELSE /\ Halted("retry: max attempts reached, sys.exit(1)")
            /\ due' = [k \in AdhocModes |->
                          IF k = kind /\ BodyFormats THEN "failed" ELSE due[k]]

NotifyFatal ==
    /\ pc = "notify"
    /\ AttemptRaisesUncaught
    /\ Halted("text_notify: TypeError formatting regional_aqi_mean")
    /\ UNCHANGED due

\* The attempt runs to utc_now = datetime.utcnow(): every recipient was
\* messaged; text_notify slept 5 s and fetched the delivery status, which it
\* logs and does not test.
NotifySent ==
    /\ pc = "notify"
    /\ ~AttemptRaisesCaught
    /\ ~AttemptRaisesUncaught
    /\ \E st \in Statuses, latency \in env.latencies :
        LET took == latency + (IF kind \in TextModes
                               THEN TEXT_STATUS_SLEEP * Second ELSE 0)
        IN  /\ now' = now + took
            /\ utc_now' = now + took
            /\ status' = IF kind \in TextModes THEN st ELSE "Sent"
    /\ copies' = AttemptCopies(copies, Recipients(kind))
    /\ reached' = Append(reached, Recipients(kind))
    /\ pc' = "write_open"
    /\ UNCHANGED <<envv, ticks, restarts, exit_cause, kind, attempts, failures,
                   readv, status_start, etv, last, file, histv, adhocv, due>>

(***************************************************************************)
(* write_timestamp(utc_now, com_mode)                                      *)
(***************************************************************************)
\* open(file_path, 'w') truncates the file.
WriteOpen ==
    /\ pc = "write_open"
    /\ file' = [file EXCEPT ![kind] = FILE_EMPTY]
    /\ pc' = "write_data"
    /\ UNCHANGED <<now, envv, ticks, restarts, exit_cause, sendv, readv,
                   status_start, etv, last, histv, sentv, due>>

\* A write_timestamp that keeps one timestamp per transport: a daily send
\* also restarts the ad-hoc cooldown of its transport.
WriteData_per_transport ==
    LET adhoc == IF kind \in TextModes THEN "text" ELSE "email"
    IN
    /\ pc = "write_data"
    /\ file' = [file EXCEPT ![kind] = FormatTs(utc_now),
                            ![adhoc] = FormatTs(utc_now)]
    /\ last' = [last EXCEPT ![kind] = utc_now, ![adhoc] = utc_now]
    /\ IF kind \in AdhocModes
       THEN /\ adhoc_gap' = [adhoc_gap EXCEPT ![kind] =
                                IF adhoc_last[kind] = NEVER THEN NEVER
                                ELSE utc_now - adhoc_last[kind]]
            /\ adhoc_last' = [adhoc_last EXCEPT ![kind] = utc_now]
       ELSE UNCHANGED adhocv
    /\ copies' = <<>>
    /\ reached' = <<>>
    /\ due' = [k \in AdhocModes |-> IF k = kind THEN "no" ELSE due[k]]
    /\ pc' = NextStage(kind)
    /\ kind' = "none"
    /\ attempts' = 0
    /\ failures' = 0
    /\ utc_now' = 0
    /\ status' = "none"
    /\ UNCHANGED <<now, envv, ticks, restarts, exit_cause, readv, status_start,
                   etv, histv>>

\* file.write(time_stamp.strftime(...)), the file is closed, the notify
\* function returns utc_now and main() stores it.
WriteData ==
    /\ pc = "write_data"
    /\ file' = [file EXCEPT ![kind] = FormatTs(utc_now)]
    /\ last' = [last EXCEPT ![kind] = utc_now]
    /\ IF kind \in AdhocModes
       THEN /\ adhoc_gap' = [adhoc_gap EXCEPT ![kind] =
                                IF adhoc_last[kind] = NEVER THEN NEVER
                                ELSE utc_now - adhoc_last[kind]]
            /\ adhoc_last' = [adhoc_last EXCEPT ![kind] = utc_now]
       ELSE UNCHANGED adhocv
    /\ copies' = <<>>
    /\ reached' = <<>>
    /\ due' = [k \in AdhocModes |-> IF k = kind THEN "no" ELSE due[k]]
    /\ pc' = NextStage(kind)
    /\ kind' = "none"
    /\ attempts' = 0
    /\ failures' = 0
    /\ utc_now' = 0
    /\ status' = "none"
    /\ UNCHANGED <<now, envv, ticks, restarts, exit_cause, readv, status_start,
                   etv, histv>>

(***************************************************************************)
(* The loop's sleep, process interrupts and restarts                       *)
(***************************************************************************)
Sleep ==
    /\ pc = "sleep"
    /\ ticks < MaxTicks
    /\ now' = NextGrid
    /\ ticks' = ticks + 1
    /\ pc' = "top"
    /\ UNCHANGED <<envv, restarts, exit_cause, sendv, readv, status_start, etv,
                   last, file, histv, sentv, due>>

\* KeyboardInterrupt (sys.exit(0)) or a kill, at any point of the loop.
Interrupt ==
    /\ pc \in RunningPcs
    /\ restarts < env.restarts
    /\ Halted("interrupt")
    /\ UNCHANGED due

\* Time passes while the process is not running.
Down ==
    /\ pc = "dead"
    /\ restarts < env.restarts
    /\ ticks < MaxTicks
    /\ now' = NextGrid
    /\ ticks' = ticks + 1
    /\ UNCHANGED <<envv, restarts, pc, exit_cause, sendv, readv, status_start,
                   etv, last, file, histv, sentv, due>>

\* The process is started again: initialize(), then the first iteration.
\* read_timestamp creates each missing file and parses every file's text;
\* fromisoformat('') raises ValueError.
Restart ==
    /\ pc = "dead"
    /\ restarts < env.restarts
    /\ restarts' = restarts + 1
    /\ file' = [k \in ComModes |->
                  IF file[k] = FILE_MISSING THEN MissingFileText ELSE file[k]]
    /\ IF \E k \in ComModes : file[k] = FILE_EMPTY
       THEN /\ pc' = "dead"
            /\ exit_cause' = "read_timestamp: ValueError, invalid isoformat string"
            /\ UNCHANGED <<sendv, readv, status_start, etv, last, histv>>
       ELSE /\ pc' = "top"
            /\ exit_cause' = ""
            /\ last' = [k \in ComModes |-> ParseTs(file'[k])]
            /\ \E lo \in InitialLocal :
                /\ local_pm25_aqi' = lo
                /\ confidence' = (IF lo = ERROR THEN "ERROR" ELSE "GOOD")
            /\ regional_aqi_mean' = 0
            /\ local_pm25_aqi_list' = <<>>
            /\ local_pm25_aqi_avg' = 0
            /\ local_pm25_aqi_avg_duration' =
                   INITIAL_AVG_DURATION * 60
            /\ pm_aqi_roc' = 0
            /\ polling_start' = now
            /\ status_start' = now
            /\ text_notification_et' = 0
            /\ email_notification_et' = 0
            /\ kind' = "none"
            /\ attempts' = 0
            /\ failures' = 0
            /\ utc_now' = 0
            /\ status' = "none"
            /\ fetched' = FALSE
            /\ criteria' = "none"
            /\ list_window' = <<>>
            /\ arrivals' = <<>>
            /\ last_fetch' = now
            /\ fetch_gap' = NEVER
    /\ due' = NoneDue
    /\ UNCHANGED <<now, envv, ticks, sentv>>

Next ==
    \/ Cycle
    \/ AdhocText
    \/ AdhocEmail
    \/ DailyText
    \/ DailyEmail
    \/ NotifyRaise
    \/ NotifyFatal
    \/ NotifySent
    \/ WriteOpen
    \/ WriteData
    \/ Sleep
    \/ Interrupt
    \/ Down
    \/ Restart

Spec == Init /\ [][Next]_vars

(***************************************************************************)
(* The conversions applied to inputs of their own                          *)
(***************************************************************************)
\* Every variable of main() but the conversion's own, which no conversion
\* reads or writes.
mainv == <<now, dst, cfg, env, ticks, restarts, pc, exit_cause, sendv, readv,
           status_start, etv, last, file, histv, sentv, due>>

InitConv ==
    /\ initialize
    /\ now = 5 * Day
    /\ dst
    /\ cfg = AllLists
    /\ env = Readings
    /\ local_pm25_aqi = 100
    /\ \/ call = "confidence" /\ args \in PairValues \X PairValues
       \/ call = "AQI" /\ args \in {<<c>> : c \in Concentrations}
       \/ call = "EPA" /\ args \in Humidities \X Readings_PM \X FurtherReadings
       \/ call = "rate" /\ args \in Buffers \X PollingIntervals
       \/ call = "regional"
            /\ args \in ResponseKinds \X Responses \X (LocalAQIs \cup {ERROR})
    /\ result = <<>>

\* get_local_pa_data, lines 304-311
ScoreConfidence ==
    /\ call = "confidence"
    /\ result = <<>>
    /\ result' = SensorConfidence(args[1], args[2])
    /\ UNCHANGED <<mainv, call, args>>

\* AQI.calculate(PM)
ConvertAQI ==
    /\ call = "AQI"
    /\ result = <<>>
    /\ result' = <<AQI_calculate(args[1])>>
    /\ UNCHANGED <<mainv, call, args>>

\* EPA.calculate(RH, PM) or EPA.calculate(RH, PM, arg)
CorrectEPA ==
    /\ call = "EPA"
    /\ result = <<>>
    /\ result' = EPA_calculate(args[1], args[2], args[3])
    /\ UNCHANGED <<mainv, call, args>>

\* aqi_rate_of_change(data_points) under a configured POLLING_INTERVAL
FitRate ==
    /\ call = "rate"
    /\ result = <<>>
    /\ \E slope \in aqi_rate_of_change(args[1], args[2]) : result' = <<slope>>
    /\ UNCHANGED <<mainv, call, args>>

\* get_regional_pa_data(bbox, local_aqi) on one response of the API
FetchRegional ==
    /\ call = "regional"
    /\ result = <<>>
    /\ result' = get_regional_pa_data(args[1], args[2], args[3])
    /\ UNCHANGED <<mainv, call, args>>

NextConv ==
    \/ ScoreConfidence
    \/ ConvertAQI
    \/ CorrectEPA
    \/ FitRate
    \/ FetchRegional

SpecConv == InitConv /\ [][NextConv]_vars

(***************************************************************************)
(* Properties                                                              *)
(***************************************************************************)
DailyModes == {"daily_text", "daily_email"}

\* The process is inside write_timestamp for the notification `kind`.
Writing == pc \in {"write_open", "write_data"}

\* C1: two confirmed ad-hoc sends on the same channel are never less than
\* NOTIFICATION_INTERVAL apart, across a restart too.
C1_SendsAnIntervalApart ==
    \A k \in AdhocModes :
        adhoc_gap[k] # NEVER => adhoc_gap[k] >= NOTIFICATION_INTERVAL * Second

\* C2: a channel's cooldown timestamp, in memory and in its file, changes
\* only after a send on that channel was confirmed successful; a text whose
\* fetched delivery status is not a success leaves it at its previous value.
C2_TimestampOnlyAfterSuccess ==
    [][ \A k \in ComModes :
          (file'[k] # file[k] \/ (pc # "dead" /\ pc' # "dead" /\ last'[k] # last[k]))
          => /\ Writing
             /\ kind = k
             /\ k \in TextModes => status \in SuccessStatuses ]_vars

\* C3: whenever the process has ended, at whatever step of write_timestamp,
\* every cooldown file holds a complete timestamp, and the next start reads
\* it.
C3_FileAlwaysComplete ==
    pc = "dead" =>
        /\ \A k \in ComModes : file[k] # FILE_EMPTY
        /\ exit_cause # "read_timestamp: ValueError, invalid isoformat string"

\* C4: a daily notification is sent only when its flag is enabled, at least
\* 14 hours have elapsed since the channel's last daily send, the UTC time of
\* day is at or after pre-open-start minus 30 seconds, the weekday is at most
\* the configured maximum, and the buffer holds at least 16 samples.
C4_DailyOnlyWhenAll ==
    (pc = "notify" /\ kind \in DailyModes /\ attempts = 0) =>
        /\ IF kind = "daily_text" THEN cfg.DAILY_TEXT_NOTIFICATION
                                  ELSE cfg.DAILY_EMAIL_NOTIFICATION
        /\ now - last[kind] >= 14 * Hour
        /\ TimeOfDay >= PRE_OPEN_ALERT_START_TIME - 30
        /\ weekday <= MAX_DAY_OF_WEEK
        /\ Len(local_pm25_aqi_list) >= 16

\* The threshold conditions over the configured windows, for the reading,
\* the regional mean and the buffer of the current state.
InWindow(from, to) == TimeOfDay >= from /\ TimeOfDay <= to

ThresholdConditions ==
    /\ weekday <= MAX_DAY_OF_WEEK
    /\ \/ /\ InWindow(PRE_OPEN_ALERT_START_TIME, PRE_OPEN_ALERT_END_TIME)
          /\ \/ local_pm25_aqi >= OPEN_AQI_ALERT_THRESHOLD
             \/ regional_aqi_mean >= PRE_OPEN_AQI_ALERT_THRESHOLD * 10
       \/ /\ InWindow(OPEN_ALERT_START_TIME, OPEN_ALERT_END_TIME)
          /\ \/ local_pm25_aqi >= OPEN_AQI_ALERT_THRESHOLD
             \/ regional_aqi_mean >= OPEN_AQI_ALERT_THRESHOLD * 10
    /\ Len(local_pm25_aqi_list) >= max_data_points

\* C5: an ad-hoc notification is sent only in a cycle that fetched and in
\* which the weekday gate is open, the reading or the regional mean reaches
\* the threshold of the window the UTC time is in, and the buffer is full;
\* notification_criteria_met returns true exactly then.
C5_AdhocOnlyWhenCriteria ==
    /\ kind \in AdhocModes => fetched /\ criteria = "T"
    /\ pc \in {"adhoc_text", "adhoc_email"} => fetched /\ criteria = "T"
    /\ pc = "adhoc_text" => ThresholdConditions
    /\ (pc = "daily_text" /\ criteria = "F") => fetched /\ ~ThresholdConditions

\* An ad-hoc text is on its way although the reading is below the open
\* threshold: the regional mean met the window's threshold.
C5_Witness ==
    /\ pc = "notify"
    /\ kind = "text"
    /\ local_pm25_aqi < OPEN_AQI_ALERT_THRESHOLD
    /\ regional_aqi_mean < PRE_OPEN_AQI_ALERT_THRESHOLD * 10

\* C6: every configured boundary is compared unshifted in standard time and
\* one hour earlier while daylight saving is in effect.
C6_BoundariesShiftedUnderDst ==
    LET Compared(t) == IF dst THEN (t - SecondsPerHour) % SecondsPerDay ELSE t
    IN  /\ polling_start_time = Compared(POLLING_START_TIME)
        /\ polling_end_time = Compared(POLLING_END_TIME)
        /\ pre_open_alert_start_time = Compared(PRE_OPEN_ALERT_START_TIME)
        /\ pre_open_alert_end_time = Compared(PRE_OPEN_ALERT_END_TIME)
        /\ open_alert_start_time = Compared(OPEN_ALERT_START_TIME)
        /\ open_alert_end_time = Compared(OPEN_ALERT_END_TIME)
        /\ daily_floor_time =
               Compared((PRE_OPEN_ALERT_START_TIME - 30) % SecondsPerDay)

\* C7: is_pdt() is true exactly when daylight saving is in effect in the
\* reference zone.
C7_IsPdtIffDst == is_pdt <=> dst

\* C8: the buffer never holds readings of two different polling windows.
C8_OneWindowInBuffer ==
    \A i, j \in 1..Len(list_window) : list_window[i] = list_window[j]

\* ceil(storageDurationMinutes / pollIntervalMinutes) + 1
Capacity ==
    LET pollIntervalMinutes == POLLING_INTERVAL \div 60
        ceil == CHOOSE n \in 0..READINGS_STORAGE_DURATION :
                    /\ n * pollIntervalMinutes >= READINGS_STORAGE_DURATION
                    /\ (n - 1) * pollIntervalMinutes < READINGS_STORAGE_DURATION
    IN  ceil + 1

\* C9: the buffer is at most Capacity long and holds exactly the most recent
\* readings appended since the last reset, in arrival order.
C9_BufferIsLatestArrivals ==
    LET n == Len(local_pm25_aqi_list)
        m == Len(arrivals)
    IN  /\ n <= Capacity
        /\ n = (IF m <= Capacity THEN m ELSE Capacity)
        /\ \A i \in 1..n : local_pm25_aqi_list[i] = arrivals[m - n + i]

\* More readings arrived than the buffer keeps, and the evicted one differs
\* from the oldest one kept.
C9_Witness ==
    /\ Len(arrivals) > Capacity
    /\ Len(local_pm25_aqi_list) = Capacity
    /\ arrivals[1] # local_pm25_aqi_list[1]
    /\ local_pm25_aqi_list[1] # local_pm25_aqi_list[Capacity]

\* The exceptions a failed or not-ok fetch ends its poll cycle with.
FetchFailureCauses ==
    { "get_local_pa_data returned 0: TypeError on unpacking",
      "get_regional_pa_data: UnboundLocalError mean_ipm25",
      "get_regional_pa_data: round('ERROR', 1) TypeError",
      "notification_criteria_met: TypeError/ValueError" }

\* C10: a poll cycle whose local or regional fetch fails or is not ok runs
\* to completion: no exception ends the process.
C10_FetchFailureAbsorbed == exit_cause \notin FetchFailureCauses

\* C11: a reading for which AQI.calculate found no breakpoint row is treated
\* as missing: it is never appended to the buffer, and the process does not
\* end on it.
C11_NoIndexTreatedAsMissing ==
    /\ \A i \in 1..Len(arrivals) : arrivals[i] # NONE
    /\ exit_cause # "None in local_pm25_aqi_list: TypeError"

\* C12: at the first start, with no cooldown file present, every channel's
\* timestamp is 24 hours before the current UTC instant.
C12_MissingFileIs24hAgo ==
    (pc = "top" /\ ticks = 0 /\ restarts = 0) =>
        \A k \in ComModes : last[k] = now - 24 * Hour

\* C13: the polling evaluation of every iteration yields two booleans, and
\* the iteration fetches iff the weekday is at most the configured maximum,
\* POLLING_INTERVAL seconds have elapsed since the previous fetch or the
\* start, and the UTC time of day is inside the polling window, bounds
\* included.
C13_FetchIffPollingCriteria ==
    [][ pc = "top" =>
          /\ Len(polling_criteria_met(now - polling_start)) = 2
          /\ pc' # "dead" =>
                (fetched' <=>
                    /\ weekday <= MAX_DAY_OF_WEEK
                    /\ now - polling_start >= POLLING_INTERVAL * Second
                    /\ InWindow(POLLING_START_TIME, POLLING_END_TIME)) ]_vars

\* C14: a retry-wrapped send invokes the wrapped function at most
\* max_attempts times (the invocation under way is number attempts + 1); a
\* failed invocation is followed by another only below that ceiling, the
\* first successful one returns with no further invocation, and the
\* max_attempts-th failure ends the process.
C14_RetryBounded ==
    [][ pc = "notify" =>
          /\ attempts + 1 <= max_attempts
          /\ pc' = "notify" =>
                attempts' = attempts + 1 /\ attempts' + 1 <= max_attempts
          /\ pc' = "write_open" => attempts' = attempts /\ ~AttemptRaisesCaught
          /\ (AttemptRaisesCaught /\ attempts + 1 = max_attempts) =>
                pc' = "dead"
          /\ exit_cause' = "retry: max attempts reached, sys.exit(1)" =>
                attempts + 1 = max_attempts ]_vars

\* The last permitted invocation of a send whose every attempt fails.
C14_Witness ==
    /\ pc = "notify"
    /\ attempts = max_attempts - 1
    /\ AttemptRaisesCaught

\* The exception the wrapped function raises on a transport failure.
WrappedException(k) ==
    IF k \in TextModes THEN "TwilioRestException" ELSE "Exception"

\* C15: when the wrapped function has failed max_attempts times, the process
\* sees the exception the wrapped function raised.
C15_RaisesSameException ==
    [][ (pc = "notify" /\ AttemptRaisesCaught /\ attempts + 1 = max_attempts
            /\ exit_cause' # "interrupt")
          => exit_cause' = WrappedException(kind) ]_vars

\* C16: in a cycle whose criteria hold and whose email cooldown has elapsed,
\* no outcome of the text send keeps the cycle from going on to the email
\* notification: the text send does not end the process.
C16_EmailIndependentOfText ==
    [][ (pc = "notify" /\ kind = "text" /\ criteria = "T"
            /\ cfg.email_list > 0
            /\ email_notification_et >= NOTIFICATION_INTERVAL * Second
            /\ exit_cause' # "interrupt")
          => pc' \in {"notify", "write_open"} ]_vars

\* C17: writing the timestamp of one com_mode leaves the other three
\* timestamps as they were, in memory and on disk, and sets its own to the
\* instant of the confirmed send.
C17_OnlyOwnTimestamp ==
    [][ /\ \A k \in ComModes :
              (Writing /\ k # kind) =>
                  /\ file'[k] = file[k]
                  /\ pc' # "dead" => last'[k] = last[k]
        /\ (pc = "write_data" /\ pc' # "dead") =>
              /\ last'[kind] = utc_now
              /\ file'[kind] = FormatTs(utc_now) ]_vars

\* A daily text send was confirmed and the ad-hoc text timestamp still is
\* what the start read.
C17_Witness ==
    /\ pc = "daily_email"
    /\ last["daily_text"] > last["text"]
    /\ file["daily_text"] # file["text"]
    /\ last["text"] = last["daily_email"]

\* The steps of main() that only evaluate criteria and branch.
Evaluating == pc \in {"adhoc_text", "adhoc_email", "daily_text", "daily_email"}

Returned(f) == call = f /\ result # <<>>

\* C19: a channel pair (a, b) is LOW iff |a - b| >= 5 or |a - b| divided by
\* the pair's mean (a + b + 1e-6) / 2 is >= 0.7, and GOOD otherwise; the
\* concentration handed on is max(a, b) when LOW and (a + b) / 2 when GOOD;
\* (10, 10.1) is GOOD and (10, 16) is LOW.
C19_ConfidenceOfPair ==
    Returned("confidence") =>
        LET a == args[1]
            b == args[2]
            dif == IF a > b THEN a - b ELSE b - a
            larger == IF a > b THEN a ELSE b
            \* dif / ((a + b + 1/EpsScale) / 2) >= 7/10
            relative == 2 * 10 * dif * EpsScale >= 7 * ((a + b) * EpsScale + 1)
            low == dif >= 5 * PairUnit \/ relative
        IN  /\ result[1] = (IF low THEN "LOW" ELSE "GOOD")
            /\ low => result[2] = 2 * larger
            /\ ~low => result[2] = a + b
            /\ (a = 10 * PairUnit /\ b = 404) => result[1] = "GOOD"
            /\ (a = 10 * PairUnit /\ b = 16 * PairUnit) => result[1] = "LOW"

\* The pair (4.75, 9.75): the difference is exactly 5 and 69 % of the mean;
\* the pair is LOW and 9.75 is handed on.
C19_Witness ==
    /\ Returned("confidence")
    /\ args = <<190, 390>>
    /\ result = <<"LOW", 780>>

\* C20: for every concentration c in [0, 500.4] at 0.1 resolution,
\* AQI.calculate(c) is Ilow + (Ihigh - Ilow) / (Chigh - Clow) * (c - Clow)
\* rounded to an integer (no integer is nearer), for the row with
\* Clow <= c <= Chigh; Clow yields Ilow and Chigh yields Ihigh; AQI(0) = 0,
\* AQI(12.0) = 50, AQI(12.1) = 51 and AQI(500.4) = 500.
C20_AQIIsRoundedInterpolation ==
    (Returned("AQI") /\ args[1] >= 0 /\ args[1] <= 50040 /\ args[1] % 10 = 0) =>
        LET c == args[1] \div 10
            I == result[1]
        IN  /\ \E i \in 1..Len(pm25_aqi) :
                  pm25_aqi[i][3] <= c /\ c <= pm25_aqi[i][4]
            /\ \A i \in 1..Len(pm25_aqi) :
                  LET Ilow == pm25_aqi[i][1]
                      Ihigh == pm25_aqi[i][2]
                      Clow == pm25_aqi[i][3]
                      Chigh == pm25_aqi[i][4]
                      \* (I - Ilow) - (Ihigh - Ilow) / (Chigh - Clow) * (c - Clow),
                      \* times Chigh - Clow
                      off == (I - Ilow) * (Chigh - Clow)
                                - (Ihigh - Ilow) * (c - Clow)
                  IN  (Clow <= c /\ c <= Chigh) =>
                          /\ 2 * off <= Chigh - Clow
                          /\ -2 * off <= Chigh - Clow
                          /\ c = Clow => I = Ilow
                          /\ c = Chigh => I = Ihigh
            /\ c = 0 => I = 0
            /\ c = 120 => I = 50
            /\ c = 121 => I = 51
            /\ c = 5004 => I = 500

\* 9.0 ug/m3: 50 / 12 * 9 = 37.5 lies between two integers, and 38 is
\* returned.
C20_Witness ==
    /\ Returned("AQI")
    /\ args = <<900>>
    /\ result = <<38>>

\* An input as C21 has EPA.calculate use it: zero for a non-numeric or a
\* negative one.
Usable(x) == IF x = STR \/ x < 0 THEN 0 ELSE x

\* C21: EPA.calculate replaces a non-numeric input by zero for that input
\* only, clamps each negative input to zero, takes the mean of all supplied
\* concentration readings, and returns 0.52*PM - 0.086*RH + 5.75 for a mean
\* <= 343 and 0.46*PM + 3.93e-4*PM^2 + 2.97 above, rounded to 3 decimals.
C21_EPAOfUsableInputs ==
    Returned("EPA") =>
        LET RH == Usable(args[1])
            count == IF args[3] = ABSENT THEN 1 ELSE 2
            total == Usable(args[2])
                        + (IF args[3] = ABSENT THEN 0 ELSE Usable(args[3]))
        IN  /\ result[1] = "ok"
            /\ result[2] =
                  IF total <= 343 * count
                  THEN RoundThousandths(
                           520 * total - 86 * RH * count + 5750 * count, count)
                  ELSE RoundThousandths(
                           460000 * total * count + 393 * total * total
                               + 2970000 * count * count,
                           1000 * count * count)

\* The buffer is an arithmetic sequence with common difference d.
Arithmetic(y, d) == \A i \in 1..(Len(y) - 1) : y[i + 1] - y[i] = d

\* C22: aqi_rate_of_change returns 0 for a buffer of fewer than 2 values and
\* for a constant buffer; for an arithmetic sequence with common difference d
\* it returns 60 * d / pollIntervalMinutes rounded to one decimal, whatever
\* the configured polling interval (pollIntervalMinutes = interval / 60).
C22_RateOfArithmeticSequence ==
    Returned("rate") =>
        /\ Len(args[1]) < 2 => result[1] = 0
        /\ \A d \in -4..4 :
               Len(args[1]) >= 2 /\ Arithmetic(args[1], d) =>
                   result[1] \in RoundOutcomes(36000 * d, args[2])

\* The sensors of a response that pass the criteria as C23 words them.
Passing(data) ==
    {i \in 1..Len(data) :
        LET a == data[i].pm2_5_cf_1_a
            b == data[i].pm2_5_cf_1_b
        IN  /\ a <= 2000
            /\ b <= 2000
            /\ a - b < 5
            /\ b - a < 5
            /\ ~LowConfidence(PairUnit * a, PairUnit * b)}

RECURSIVE SumOfIndices(_, _)
SumOfIndices(data, indices) ==
    IF indices = {} THEN 0
    ELSE LET i == CHOOSE j \in indices : TRUE
         IN  Ipm25(data[i]) + SumOfIndices(data, indices \ {i})

\* C23: on an ok response the regional mean is the mean AQI (to one
\* decimal) over only the sensors whose channel pair passes the cleaning
\* criteria; when no sensor passes, the regional mean returned is the local
\* index of that cycle.
C23_MeanOverPassingSensors ==
    (Returned("regional") /\ args[1] = "ok") =>
        LET passing == Passing(args[2])
        IN  /\ passing # {} =>
                  /\ result[1] = "ok"
                  /\ result[2] \in
                        RoundOutcomes(10 * SumOfIndices(args[2], passing),
                                      Cardinality(passing))
            /\ passing = {} => result = << "ok", 10 * args[3] >>

\* C24: before the k-th retry (k = 1 .. max_attempts - 1) the wrapper sleeps
\* delay + escalation * (k - 1) seconds, so the first retry waits delay and
\* each later one escalation seconds more than the one before; after the
\* final failed attempt the wrapper does not sleep.
C24_RetryDelays ==
    [][ (pc = "notify" /\ AttemptRaisesCaught) =>
          /\ pc' = "notify" =>
                /\ attempts' \in 1..(max_attempts - 1)
                /\ now' - now = (delay + escalation * (attempts' - 1)) * Second
                /\ attempts' = 1 => now' - now = delay * Second
          /\ attempts + 1 = max_attempts => now' = now ]_vars

\* The third invocation of a send: two retries have been waited for.
C24_Witness ==
    /\ pc = "notify"
    /\ attempts = 2
    /\ failures = max_attempts

\* C25: after a poll cycle that appended a reading, the average is the
\* arithmetic mean of the values in the buffer as it stands after eviction,
\* the averaging duration is (count - 1) * pollIntervalMinutes, and the rate
\* of change is the one computed from that same buffer.
C25_DerivedFromBuffer ==
    (fetched /\ IsNum(local_pm25_aqi)) =>
        LET count == Len(local_pm25_aqi_list)
        IN  /\ count >= 1
            /\ local_pm25_aqi_list[count] = local_pm25_aqi
            /\ local_pm25_aqi_list = LastN(arrivals, max_data_points)
            /\ local_pm25_aqi_avg * count
                  = AvgUnit * SumOver(local_pm25_aqi_list, 0, 1)
            /\ local_pm25_aqi_avg_duration * Second
                  = (count - 1) * (POLLING_INTERVAL \div 60) * Minute
            /\ pm_aqi_roc \in aqi_rate_of_change(local_pm25_aqi_list,
                                                  POLLING_INTERVAL)

\* A reading was appended to a full buffer and the oldest one evicted; the
\* three values kept are not all equal.
C25_Witness ==
    /\ fetched
    /\ Len(arrivals) > max_data_points
    /\ local_pm25_aqi_list = <<100, 99, 99>>
    /\ local_pm25_aqi_avg = 596
    /\ pm_aqi_roc = -3

\* C29: a poll cycle whose local reading is ERROR leaves the buffer, the
\* average, the averaging duration and the rate of change (and the cooldown
\* timestamps) as they were before the cycle; the current index, the
\* confidence, the regional mean and the polling start time are the ones it
\* sets.
C29_ErrorCycleFrame ==
    [][ (pc = "top" /\ fetched' /\ local_pm25_aqi' = ERROR) =>
          /\ local_pm25_aqi_list' = local_pm25_aqi_list
          /\ local_pm25_aqi_avg' = local_pm25_aqi_avg
          /\ local_pm25_aqi_avg_duration' = local_pm25_aqi_avg_duration
          /\ pm_aqi_roc' = pm_aqi_roc
          /\ last' = last
          /\ file' = file
          /\ confidence' = "ERROR"
          /\ polling_start' = now ]_vars

\* An ERROR cycle that found a reading of 99 in the buffer and has set the
\* regional mean.
C29_Witness ==
    /\ fetched
    /\ local_pm25_aqi = ERROR
    /\ local_pm25_aqi_list = <<99>>
    /\ local_pm25_aqi_avg = AvgUnit * 99
    /\ regional_aqi_mean = 1000

BetweenCalls == pc \in RunningPcs \ {"notify", "write_open", "write_data"}

\* C28: whenever the main loop is between notification calls, each of the
\* four cooldown timestamps in memory denotes the same instant as the text
\* in its cooldown file: at startup after read_timestamp (the missing-file
\* case included) and after every completed send.
C28_MemoryDenotesFile ==
    BetweenCalls =>
        \A k \in ComModes :
            /\ file[k] # FILE_MISSING
            /\ file[k] # FILE_EMPTY
            /\ last[k] = ParseTs(file[k])

\* The messages recipient i has got in the firing under way.
CopiesOf(i) == IF i <= Len(copies) THEN copies[i] ELSE 0

\* The process is inside a call of text_notify or email_notify.
InFiring == pc \in {"notify", "write_open", "write_data"}

\* C26: each attempt of a firing starts again at the first recipient, so a
\* recipient gets one copy from every attempt that reached it and can get as
\* many copies as attempts were made; the cooldown timestamp is written
\* after the last recipient of the successful attempt.
C26_AttemptsRestartAtFirst ==
    InFiring =>
        /\ Len(reached) = attempts + (IF Writing THEN 1 ELSE 0)
        /\ \A i \in 1..Recipients(kind) :
              /\ CopiesOf(i) =
                    Cardinality({a \in 1..Len(reached) : reached[a] >= i})
              /\ CopiesOf(i) <= Len(reached)
        /\ Writing =>
              /\ reached[Len(reached)] = Recipients(kind)
              /\ \A i \in 1..Recipients(kind) : CopiesOf(i) >= 1

\* The second attempt of a firing has succeeded; the first had messaged the
\* first of two recipients, who now has two copies.
C26_Witness ==
    /\ Writing
    /\ attempts = 1
    /\ Recipients(kind) = 2
    /\ copies = <<2, 1>>

\* C27: a cooldown timestamp is recorded for a firing only if the firing
\* sent a message to at least one recipient: text_notify and email_notify
\* are invoked only with a non-empty recipient list, for all four kinds and
\* whichever of the user and admin lists are empty.
C27_FiringHasRecipient ==
    /\ InFiring => Recipients(kind) > 0
    /\ Writing => CopiesOf(1) >= 1

\* The rows of pm25_aqi with Clow <= PM2_5 <= Chigh for the truncated PM2_5.
MatchingRows(t) ==
    {i \in 1..Len(pm25_aqi) : pm25_aqi[i][3] <= t /\ t <= pm25_aqi[i][4]}

\* C32: for every concentration in [0, 500.4], after truncation to 0.1
\* exactly one row of pm25_aqi matches, the result lies in 0..500 and is
\* non-decreasing in the input; every negative input yields 0.
C32_OneRowMonotone ==
    Returned("AQI") =>
        LET PM2_5 == args[1]
        IN  /\ PM2_5 < 0 => result[1] = 0
            /\ (PM2_5 >= 0 /\ PM2_5 <= 50040) =>
                  /\ Cardinality(MatchingRows(Truncated(PM2_5))) = 1
                  /\ result[1] \in 0..500
                  /\ PM2_5 > 0 => AQI_calculate(PM2_5 - 1) <= result[1]

\* The ad-hoc part of the iteration is over: the loop is at its daily
\* notifications, asleep or at the top of its next iteration, or the process
\* has ended by itself.
AdhocPartOver ==
    \/ pc \in {"daily_text", "daily_email", "sleep", "top"}
    \/ pc = "dead" /\ exit_cause # "interrupt"

\* C31: if a poll cycle fetches a reading while the threshold criteria hold,
\* a channel's recipient list is non-empty, the channel's cooldown has
\* elapsed and its transport succeeds within max_attempts attempts, the
\* notification on that channel is sent and its cooldown timestamp updated
\* (memory and file) before the next poll cycle begins.
C31_DueNotificationSent ==
    AdhocPartOver => \A k \in AdhocModes : due[k] # "due"

====
